---- MODULE Spec2Model ----
(***************************************************************************)
(* Model of the Giftkarimi Tech Events bot (src/bot.py): the aggregator    *)
(* get_all_events, the broadcast cycle broadcast_events, the manual        *)
(* trigger admin_broadcast and the scheduler loop run_scheduler, with the  *)
(* three JSON files they persist their state in.                           *)
(*                                                                         *)
(* Titles are sequences of one-character strings so that lower(), strip()  *)
(* and the [:60] slice are computed, not assumed.  A string of this        *)
(* module holds the characters U+0000..U+00FF only: lower() and strip()    *)
(* are modelled on all of them, and the two glyphs of the curated titles   *)
(* beyond that range are written "*" (green circle) and "-" (em dash);     *)
(* neither is a letter or whitespace.                                      *)
(***************************************************************************)
EXTENDS Integers, Sequences, FiniteSets, TLC

\* ------------------------------------------------------------------ text

\* the characters c with c.lower() # c: A..Z and the capital letters of
\* Latin-1 (U+00C0..U+00DE but the multiplication sign U+00D7)
UpperChars == <<"A","B","C","D","E","F","G","H","I","J","K","L","M",
                "N","O","P","Q","R","S","T","U","V","W","X","Y","Z",
                "À","Á","Â","Ã","Ä","Å","Æ","Ç","È","É",
                "Ê","Ë","Ì","Í","Î","Ï","Ð","Ñ","Ò","Ó",
                "Ô","Õ","Ö","Ø","Ù","Ú","Û","Ü","Ý","Þ">>

\* c.lower() of the characters of UpperChars, position by position
LowerChars == <<"a","b","c","d","e","f","g","h","i","j","k","l","m",
                "n","o","p","q","r","s","t","u","v","w","x","y","z",
                "à","á","â","ã","ä","å","æ","ç","è","é",
                "ê","ë","ì","í","î","ï","ð","ñ","ò","ó",
                "ô","õ","ö","ø","ù","ú","û","ü","ý","þ">>

\* the characters str.strip() removes (those with c.isspace()): tab, line
\* feed, carriage return, form feed, space, then U+000B, U+001C..U+001F,
\* U+0085 and U+00A0
Whitespace == {"\t", "\n", "\r", "\f", " ",
               "", "", "", "", "", "", " "}

Min2(a, b) == IF a <= b THEN a ELSE b

SetMin(S) == CHOOSE x \in S : \A y \in S : x <= y

SetMax(S) == CHOOSE x \in S : \A y \in S : y <= x

\* str.lower() on one character
LowerChar(c) ==
    IF \E i \in 1..Len(UpperChars) : UpperChars[i] = c
    THEN LowerChars[CHOOSE i \in 1..Len(UpperChars) : UpperChars[i] = c]
    ELSE c

\* str.lower()
Lower(s) == [i \in 1..Len(s) |-> LowerChar(s[i])]

\* str.strip(): leading and trailing whitespace removed
Strip(s) ==
    LET keep == {i \in 1..Len(s) : s[i] \notin Whitespace}
    IN  IF keep = {} THEN <<>> ELSE SubSeq(s, SetMin(keep), SetMax(keep))

\* s[:n]
Prefix(s, n) == SubSeq(s, 1, Min2(n, Len(s)))

\* the slice length of the title key, e["title"].lower().strip()[:60]
TitleKeyLen == 60

\* e["title"].lower().strip()[:60]
TitleKey(title) == Prefix(Strip(Lower(title)), TitleKeyLen)

RECURSIVE Repeat(_, _)
Repeat(s, n) == IF n = 0 THEN <<>> ELSE s \o Repeat(s, n - 1)

\* ------------------------------------------------------------- catalogs

\* get_curated_events(): the twelve curated entries, in order (the display
\* date, an offset from today, takes no part in any decision and is left out)
Curated == <<
    [id |-> "cur_1", url |-> "https://developers.google.com/community/events", source |-> "Google Developers",
     title |-> <<"G","o","o","g","l","e"," ","f","o","r"," ","D","e","v","e","l","o","p","e","r","s"," ","E","v","e","n","t","s"," ","*"," ","G","o","o","g","l","e"," ","M","e","e","t">>],
    [id |-> "cur_2", url |-> "https://cloud.google.com/events", source |-> "Google Cloud",
     title |-> <<"G","o","o","g","l","e"," ","C","l","o","u","d"," ","O","n","l","i","n","e"," ","E","v","e","n","t","s"," ","*"," ","G","o","o","g","l","e"," ","M","e","e","t">>],
    [id |-> "cur_3", url |-> "https://aws.amazon.com/events/online-tech-talks/", source |-> "AWS",
     title |-> <<"A","W","S"," ","F","r","e","e"," ","O","n","l","i","n","e"," ","T","e","c","h"," ","T","a","l","k","s"," ","-"," ","R","e","g","i","s","t","e","r"," ","N","o","w">>],
    [id |-> "cur_4", url |-> "https://developer.microsoft.com/en-us/reactor/", source |-> "Microsoft",
     title |-> <<"M","i","c","r","o","s","o","f","t"," ","R","e","a","c","t","o","r"," ","L","i","v","e"," ","E","v","e","n","t","s"," ","-"," ","F","r","e","e"," ","R","S","V","P">>],
    [id |-> "cur_5", url |-> "https://www.freecodecamp.org/news/tag/events/", source |-> "freeCodeCamp",
     title |-> <<"f","r","e","e","C","o","d","e","C","a","m","p"," ","L","i","v","e"," ","S","e","s","s","i","o","n","s"," ","-"," ","F","r","e","e"," ","R","e","g","i","s","t","r","a","t","i","o","n">>],
    [id |-> "cur_6", url |-> "https://community.cncf.io/events/", source |-> "CNCF",
     title |-> <<"C","N","C","F"," ","W","e","b","i","n","a","r","s"," ","-"," ","F","r","e","e"," ","C","l","o","u","d"," ","N","a","t","i","v","e"," ","E","v","e","n","t","s">>],
    [id |-> "cur_7", url |-> "https://resources.github.com/events/", source |-> "GitHub",
     title |-> <<"G","i","t","H","u","b"," ","O","n","l","i","n","e"," ","E","v","e","n","t","s"," ","-"," ","F","r","e","e"," ","D","e","v","e","l","o","p","e","r"," ","S","e","s","s","i","o","n","s">>],
    [id |-> "cur_8", url |-> "https://www.meetup.com/pro/pydata/", source |-> "PyData",
     title |-> <<"P","y","D","a","t","a"," ","O","n","l","i","n","e"," ","M","e","e","t","u","p","s"," ","-"," ","F","r","e","e"," ","R","S","V","P">>],
    [id |-> "cur_9", url |-> "https://womenintechsummit.net/events/", source |-> "WIT Summit",
     title |-> <<"W","o","m","e","n"," ","i","n"," ","T","e","c","h"," ","S","u","m","m","i","t"," ","-"," ","F","r","e","e"," ","O","n","l","i","n","e"," ","E","v","e","n","t","s">>],
    [id |-> "cur_10", url |-> "https://events.linuxfoundation.org/", source |-> "Linux Foundation",
     title |-> <<"L","i","n","u","x"," ","F","o","u","n","d","a","t","i","o","n"," ","F","r","e","e"," ","W","e","b","i","n","a","r","s"," ","-"," ","R","e","g","i","s","t","e","r">>],
    [id |-> "cur_11", url |-> "https://www.hashicorp.com/events", source |-> "HashiCorp",
     title |-> <<"H","a","s","h","i","c","o","r","p"," ","D","e","v","O","p","s"," ","E","v","e","n","t","s"," ","-"," ","F","r","e","e"," ","O","n","l","i","n","e"," ","R","S","V","P">>],
    [id |-> "cur_12", url |-> "https://devopsdays.org/events/", source |-> "DevOpsDays",
     title |-> <<"D","e","v","O","p","s"," ","D","a","y","s"," ","C","o","m","m","u","n","i","t","y"," ","E","v","e","n","t","s"," ","-"," ","F","r","e","e"," ","R","e","g","i","s","t","r","a","t","i","o","n">>]
>>

\* sixty characters: two titles that differ only after the key's slice
LongTitle == Repeat(<<"E","n","g","i","n","e","e","r","i","n","g"," ">>, 5)

\* What the providers hold (already mapped to the common dict shape).
\* Chosen so that every comparison of get_all_events has both outcomes: a
\* shared url (3, 5), a shared title key (1, 3), an empty title (4), a title
\* equal to a curated one up to case (6), a curated url (7), titles that
\* agree on their first 60 characters (8, 9); so that every getter meets a
\* title without any keyword (10 to 13), one of them with a capital letter
\* outside A..Z (12); and a title Meetup sends with a trailing line feed,
\* equal to a curated one but for it (14).
LiveCatalog == <<
    [id |-> "luma_a", url |-> "https://lu.ma/a", source |-> "Luma",
     title |-> <<"A","I"," ","T","a","l","k">>],
    [id |-> "luma_b", url |-> "https://lu.ma/b", source |-> "Luma",
     title |-> <<"W","e","b"," ","S","u","m","m","i","t">>],
    [id |-> "mu_x", url |-> "https://www.meetup.com/x", source |-> "Meetup",
     title |-> <<"a","i"," ","t","a","l","k"," ">>],
    [id |-> "mu_y", url |-> "https://www.meetup.com/y", source |-> "Meetup",
     title |-> <<>>],
    [id |-> "rss_1", url |-> "https://www.meetup.com/x", source |-> "TechCrunch",
     title |-> <<"T","e","c","h"," ","M","e","e","t","u","p">>],
    [id |-> "rss_2", url |-> "https://techcrunch.com/2", source |-> "TechCrunch",
     title |-> Lower(Curated[3].title)],
    [id |-> "rss_3", url |-> "https://cloud.google.com/events", source |-> "Wired",
     title |-> <<"C","l","o","u","d"," ","E","x","p","o">>],
    [id |-> "rss_4", url |-> "https://www.wired.com/4", source |-> "Wired",
     title |-> LongTitle \o <<"o","n","e">>],
    [id |-> "devto_9", url |-> "https://dev.to/9", source |-> "Dev.to",
     title |-> LongTitle \o <<"t","w","o">>],
    [id |-> "mu_z", url |-> "https://www.meetup.com/z", source |-> "Meetup",
     title |-> <<"B","o","o","k"," ","C","l","u","b">>],
    [id |-> "luma_c", url |-> "https://lu.ma/c", source |-> "Luma",
     title |-> <<"Y","o","g","a"," ","N","i","g","h","t">>],
    [id |-> "devto_8", url |-> "https://dev.to/8", source |-> "Dev.to",
     title |-> <<"É","c","o","l","e"," ","T","i","p","s">>],
    [id |-> "rss_5", url |-> "https://techcrunch.com/3", source |-> "TechCrunch",
     title |-> <<"W","i","n","e"," ","T","a","s","t","i","n","g">>],
    [id |-> "mu_w", url |-> "https://www.meetup.com/w", source |-> "Meetup",
     title |-> Curated[8].title \o <<"\n">>]
>>

NLive == Len(LiveCatalog)

\* Events are handled by their index in Catalog; Ev(h) is the dict.
Catalog == LiveCatalog \o Curated

Ev(h) == Catalog[h]

TECH_KEYWORDS == {
    <<"t","e","c","h">>,
    <<"a","i">>,
    <<"p","y","t","h","o","n">>,
    <<"j","a","v","a","s","c","r","i","p","t">>,
    <<"w","e","b">>,
    <<"d","a","t","a">>,
    <<"c","l","o","u","d">>,
    <<"c","o","d","e">>,
    <<"d","e","v","e","l","o","p","e","r">>,
    <<"s","o","f","t","w","a","r","e">>,
    <<"m","a","c","h","i","n","e"," ","l","e","a","r","n","i","n","g">>,
    <<"s","t","a","r","t","u","p">>,
    <<"d","e","v","o","p","s">>,
    <<"c","y","b","e","r","s","e","c","u","r","i","t","y">>,
    <<"b","l","o","c","k","c","h","a","i","n">>,
    <<"u","x">>,
    <<"d","e","s","i","g","n">>,
    <<"p","r","o","d","u","c","t">>,
    <<"p","r","o","g","r","a","m","m","i","n","g">>,
    <<"r","e","a","c","t">>,
    <<"n","o","d","e">>,
    <<"f","l","u","t","t","e","r">>,
    <<"m","o","b","i","l","e">>,
    <<"a","p","i">>,
    <<"d","a","t","a","b","a","s","e">>,
    <<"o","p","e","n"," ","s","o","u","r","c","e">>,
    <<"h","a","c","k","a","t","h","o","n">>,
    <<"b","o","o","t","c","a","m","p">>,
    <<"w","o","r","k","s","h","o","p">>,
    <<"w","e","b","i","n","a","r">>,
    <<"e","n","g","i","n","e","e","r","i","n","g">>}

\* k in s, for str
Contains(s, k) ==
    \E i \in 0..(Len(s) - Len(k)) : \A j \in 1..Len(k) : s[i + j] = k[j]

\* any(k in title.lower() for k in TECH_KEYWORDS)
is_tech(title) == \E k \in TECH_KEYWORDS : Contains(Lower(title), k)

\* is_tech of the title of every record the providers hold
TechTitle == [h \in 1..NLive |-> is_tech(Ev(h).title)]

\* the labels of the feeds read by fetch_rss_events
RssLabels == {"TechCrunch", "Wired"}

\* the seeds a process run may draw for its str hashes
Seeds == {1, 2}

\* hash(link) % 999999 of the feed links of LiveCatalog, per seed (CPython
\* 3.11, 64 bit, PYTHONHASHSEED = seed)
RssHash ==
    [seed \in Seeds |->
        IF seed = 1
        THEN [u \in {"https://www.meetup.com/x", "https://techcrunch.com/2",
                     "https://cloud.google.com/events", "https://www.wired.com/4",
                     "https://techcrunch.com/3"} |->
                CASE u = "https://www.meetup.com/x" -> 20206
                  [] u = "https://techcrunch.com/3" -> 559374
                  [] u = "https://techcrunch.com/2" -> 958254
                  [] u = "https://cloud.google.com/events" -> 399483
                  [] u = "https://www.wired.com/4" -> 862485]
        ELSE [u \in {"https://www.meetup.com/x", "https://techcrunch.com/2",
                     "https://cloud.google.com/events", "https://www.wired.com/4",
                     "https://techcrunch.com/3"} |->
                CASE u = "https://www.meetup.com/x" -> 674832
                  [] u = "https://techcrunch.com/3" -> 222959
                  [] u = "https://techcrunch.com/2" -> 249057
                  [] u = "https://cloud.google.com/events" -> 651881
                  [] u = "https://www.wired.com/4" -> 379070]]

\* the "id" a getter gives record h in a run with the given seed: the
\* provider's own id behind the source prefix, but f"rss_{hash(link) %
\* 999999}" for the items of a feed
event_id(h, seed) ==
    IF Ev(h).source \in RssLabels
    THEN "rss_" \o ToString(RssHash[seed][Ev(h).url])
    ELSE Ev(h).id

\* the title key of every event of the catalog
KeyOf == [h \in 1..Len(Catalog) |-> TitleKey(Catalog[h].title)]

\* get_curated_events(), as handles
get_curated_events == [i \in 1..Len(Curated) |-> NLive + i]

\* the getters of get_all_events that have events in LiveCatalog, with the
\* label they put in "source" (get_eventbrite_events without a token and
\* get_geekwire_events contribute nothing here)
SourceLabel == [get_luma_events       |-> "Luma",
                get_meetup_events     |-> "Meetup",
                get_devto_events      |-> "Dev.to",
                get_techcrunch_events |-> "TechCrunch",
                get_wired_events      |-> "Wired"]

sources == DOMAIN SourceLabel

\* the test a getter puts a record to: get_meetup_events takes every node
\* that has an id, the others "if not title or not is_tech(title): continue"
Keeps(g, h) ==
    IF g = "get_meetup_events" THEN TRUE
    ELSE Ev(h).title # <<>> /\ TechTitle[h]

\* what getter g returns when its provider answers
AdapterEvents(g) ==
    SelectSeq([i \in 1..NLive |-> i],
              LAMBDA h : Ev(h).source = SourceLabel[g] /\ Keeps(g, h))

\* ------------------------------------------------------------ variables

VARIABLES
    MIN_EVENTS, MAX_EVENTS,   \* configuration read from the environment
    TEST_INTERVAL_MINS,       \* 0: daily mode, > 0: interval mode
    clock,                    \* wall clock, in steps of ClockStepMins
    subscribersFile,          \* subscribers.json: the chat ids, in dict order
    sentFile,                 \* sent_ids.json
    lastRunFile,              \* last_run.json
    pc,                       \* where each thread is
    bc,                       \* each thread's frame of broadcast_events
    sch,                      \* run_scheduler's locals of the current tick
    adminCalls,               \* POST /admin/broadcast requests so far
    fires,                    \* history: scheduler cycles invoked, per day
    dueTicks,                 \* history: days with a tick at or after SEND_TIME
    boot,                     \* history: the marker found at start
    announced,                \* history: ids of non-forced to_send lists
    ledgerHigh,               \* history: ids sent_ids.json has held
    wh_res, wh_order,         \* /events: what each future returned, and the
                              \* order the futures completed in
    wh_events,                \* /events: events = get_all_events()
    wh_subs,                  \* /start, /stop: where the handler of each
                              \* request is, and its subscribers dict
    wh_out,                   \* get_all_events: how each getter's future ends
    wh_phase,                 \* /events and get_all_events: where the
                              \* handler and the call are
    hash_seed,                \* the seed of str hashes in this process run
    restarts,                 \* how often the process was killed and started
    lastFire,                 \* history: now_ts of the last interval trigger
    midCrash,                 \* history: the ticks whose cycle a kill stopped
                              \* between two sends
    idsGiven,                 \* history: the ids each provider record got
    io,                       \* history: the writes that failed so far, and
                              \* the file whose failed write no later write
                              \* has made good
    returned                  \* history: the days whose scheduled call of
                              \* broadcast_events returned

config == <<MIN_EVENTS, MAX_EVENTS, TEST_INTERVAL_MINS>>

files == <<subscribersFile, sentFile, lastRunFile>>

proc == <<hash_seed, restarts>>

ghosts == <<midCrash, idsGiven, io, returned>>

history == <<fires, dueTicks, boot, announced, ledgerHigh, lastFire, ghosts>>

wh == <<wh_res, wh_order, wh_events, wh_subs, wh_out, wh_phase>>

vars == <<config, proc, clock, files, pc, bc, sch, adminCalls, history, wh>>

\* ----------------------------------------------------------- aggregator

\* all_events after the as_completed loop: the results concatenated in
\* completion order
RECURSIVE Collected(_, _)
Collected(res, order) ==
    IF order = <<>> THEN <<>>
    ELSE res[Head(order)] \o Collected(res, Tail(order))

\* one failed future empties the whole collection
ExtendedNone(res, exc) ==
    [g \in DOMAIN res |-> IF exc # {} THEN <<>> ELSE res[g]]

\* the try/except around future.result(): all_events is extended with the
\* result of a future that returns, and with nothing when result() raises
Extended(res, exc) ==
    [g \in DOMAIN res |-> IF g \in exc THEN <<>> ELSE res[g]]

\* the "Deduplicate by URL" loop: e is kept when its url is new and its
\* title is truthy
RECURSIVE UniqueFrom(_, _, _)
UniqueFrom(all_events, seen_urls, unique) ==
    IF all_events = <<>> THEN unique
    ELSE LET e == Head(all_events)
         IN  IF Ev(e).url \notin seen_urls /\ Ev(e).title # <<>>
             THEN UniqueFrom(Tail(all_events), seen_urls \cup {Ev(e).url},
                             Append(unique, e))
             ELSE UniqueFrom(Tail(all_events), seen_urls, unique)

Unique(all_events) == UniqueFrom(all_events, {}, <<>>)

\* the padding loop over get_curated_events()
RECURSIVE PadFrom(_, _, _)
PadFrom(curated, seen_titles, unique) ==
    IF curated = <<>> THEN unique
    ELSE LET e   == Head(curated)
             key == KeyOf[e]
         IN  IF key \notin seen_titles
             THEN PadFrom(Tail(curated), seen_titles \cup {key}, Append(unique, e))
             ELSE PadFrom(Tail(curated), seen_titles, unique)

\* padding only when nothing at all was found
PaddedIfEmpty(unique) ==
    IF Len(unique) < 1
    THEN PadFrom(get_curated_events,
                 {KeyOf[unique[i]] : i \in 1..Len(unique)}, unique)
    ELSE unique

\* padding that stops once MIN_EVENTS entries are reached
PaddedToMin(unique) ==
    IF Len(unique) < MIN_EVENTS
    THEN Prefix(PadFrom(get_curated_events,
                        {KeyOf[unique[i]] : i \in 1..Len(unique)}, unique),
                MIN_EVENTS)
    ELSE unique

\* "Pad with curated events if not enough"
Padded(unique) ==
    IF Len(unique) < MIN_EVENTS
    THEN PadFrom(get_curated_events,
                 {KeyOf[unique[i]] : i \in 1..Len(unique)}, unique)
    ELSE unique

get_all_events(res, order) == Padded(Unique(Collected(res, order)))

\* ---------------------------------------------------------------- bounds

MaxClock == 3

MaxRestarts == 1

MaxWriteFails == 1

MaxAdminCalls == 1

MaxRequests == 2

FireCap == 2

\* ------------------------------------------------------------------ time

\* one step of the model's clock: eight hours, so that the clock shows
\* 00:00, 08:00 (SEND_TIME exactly) and 16:00 of each day
ClockStepMins == 8 * 60

\* epoch seconds of 00:00 EAT of day 0 (EAT is UTC+3 the whole year)
Day0Epoch == 19000 * 86400 - 3 * 3600

\* minutes since 00:00 of day 0, Africa/Nairobi
LocalMinutes(c) == c * ClockStepMins

\* now.strftime("%Y-%m-%d"), as a day number
today_str(c) == LocalMinutes(c) \div 1440

\* now.hour * 60 + now.minute
now_total(c) ==
    LET hour   == (LocalMinutes(c) % 1440) \div 60
        minute == LocalMinutes(c) % 60
    IN  hour * 60 + minute

\* int(now.timestamp())
now_ts(c) == Day0Epoch + LocalMinutes(c) * 60

\* SEND_TIME = "08:00"
send_hour == 8

send_min == 0

snd_total == send_hour * 60 + send_min

Days == 0..today_str(MaxClock)

\* --------------------------------------------------------------- storage

\* A file is missing, empty (opened with "w" and not yet written), holds a
\* JSON document, or is garbled: a document followed by the rest of a longer
\* one.  json.load raises on an empty and on a garbled file.  size is the
\* number of bytes in the file.
MissingFile == [st |-> "missing", ids |-> {}, size |-> 0]

EmptyFile == [st |-> "empty", ids |-> {}, size |-> 0]

\* the bytes json.dump(list(ids), f) writes: the brackets, each id in
\* quotes, ", " between two ids
RECURSIVE IdsJsonLen(_)
IdsJsonLen(ids) ==
    IF ids = {} THEN 2
    ELSE LET id == CHOOSE i \in ids : TRUE
         IN  Len(id) + 4 + (IF ids = {id} THEN 0 ELSE IdsJsonLen(ids \ {id}))

JsonIds(ids) == [st |-> "json", ids |-> ids, size |-> IdsJsonLen(ids)]

GarbledFile(size) == [st |-> "garbled", ids |-> {}, size |-> size]

\* json.dump and the close of save_sent_ids: the document is written from
\* offset 0 and replaces what the file holds, unless another thread has
\* left more bytes in the file since this one opened it; then the rest of
\* those stays behind the document
DumpedIds(ids) ==
    IF IdsJsonLen(ids) >= sentFile.size THEN JsonIds(ids)
    ELSE GarbledFile(sentFile.size)

\* subscribers.json: the chat ids in the dict's order
MissingSubs == [st |-> "missing", subs |-> <<>>, size |-> 0]

EmptySubs == [st |-> "empty", subs |-> <<>>, size |-> 0]

\* the bytes json.dump(subs, f, indent=2) writes: "{}" for the empty dict,
\* 91 for one chat with a one-digit id, first_name "Friend" and no
\* username, 89 more for each further such chat
SubsJsonLen(subs) == 89 * Len(subs) + 2

JsonSubs(subs) == [st |-> "json", subs |-> subs, size |-> SubsJsonLen(subs)]

GarbledSubs(size) == [st |-> "garbled", subs |-> <<>>, size |-> size]

\* json.dump and the close of save_subscribers, as for save_sent_ids
DumpedSubs(subs) ==
    IF SubsJsonLen(subs) >= subscribersFile.size THEN JsonSubs(subs)
    ELSE GarbledSubs(subscribersFile.size)

\* load_subscribers() raises (json.load on an empty or garbled file)
load_subscribers_raises == subscribersFile.st \in {"empty", "garbled"}

load_subscribers == IF subscribersFile.st = "json" THEN subscribersFile.subs ELSE <<>>

\* last_run.json: each key is absent ({}) or present with one value
MissingRun == [st |-> "missing", last_sent_day |-> {}, last_sent_ts |-> {}]

EmptyRun == [st |-> "empty", last_sent_day |-> {}, last_sent_ts |-> {}]

JsonRun(day, ts) == [st |-> "json", last_sent_day |-> day, last_sent_ts |-> ts]

\* load_sent_ids() raises (json.load on an empty or garbled file)
load_sent_ids_raises == sentFile.st \in {"empty", "garbled"}

load_sent_ids == IF sentFile.st = "json" THEN sentFile.ids ELSE {}

\* load_last_run(): None is {}, a day d is {d}; any exception gives None
load_last_run == IF lastRunFile.st = "json" THEN lastRunFile.last_sent_day ELSE {}

\* load_last_run_timestamp(): json.load(f).get("last_sent_ts") or 0
load_last_run_timestamp ==
    IF lastRunFile.st = "json" /\ lastRunFile.last_sent_ts # {}
    THEN CHOOSE ts \in lastRunFile.last_sent_ts : TRUE
    ELSE 0

\* save_last_run: data as read back, with the truthy arguments set
save_last_run_data(day_str, ts) ==
    LET data == IF lastRunFile.st = "json" THEN lastRunFile ELSE JsonRun({}, {})
    IN  JsonRun(IF day_str # {} THEN day_str ELSE data.last_sent_day,
                IF ts # {} /\ ts # {0} THEN ts ELSE data.last_sent_ts)

\* ------------------------------------------------------------- broadcast

Threads == {"sched", "admin"}

\* the chats that write to the bot
ChatIds == {1}

\* the "/start" and "/stop" requests of a run, in the order they arrive;
\* app.run serves each on a thread of its own
Requests == 1..MaxRequests

\* a request that has not arrived yet
NoRequest == [pc |-> "none", subscribers |-> <<>>]

\* e["id"] in this run
EvId(h) == event_id(h, hash_seed)

Ids(events) == {EvId(events[i]) : i \in 1..Len(events)}

\* [e for e in all_events if e["id"] not in sent_ids]
Unseen(all_events, sent_ids) ==
    SelectSeq(all_events, LAMBDA e : EvId(e) \notin sent_ids)

\* new_events without the reset policy: too few unseen events are sent as
\* they are
NewEventsNoReset(all_events, sent_ids, force) ==
    IF force THEN all_events ELSE Unseen(all_events, sent_ids)

\* new_events of broadcast_events, after the reset policy
NewEvents(all_events, sent_ids, force) ==
    LET new_events == IF force THEN all_events ELSE Unseen(all_events, sent_ids)
    IN  IF Len(new_events) < MIN_EVENTS /\ ~force THEN all_events ELSE new_events

\* to_send without the cap
ToSendUncapped(all_events, sent_ids, force) ==
    NewEvents(all_events, sent_ids, force)

\* to_send = new_events[:MAX_EVENTS]
ToSend(all_events, sent_ids, force) ==
    Prefix(NewEvents(all_events, sent_ids, force), MAX_EVENTS)

NoResult == [sent |-> 0, failed |-> 0, events |-> 0]

\* build_message(events): the numbered entries of the body, each with the
\* title, link and source of its event
build_message(events) == [i \in 1..Len(events) |-> [n |-> i, e |-> events[i]]]

\* a frame of broadcast_events before its first statement
Frame(force) ==
    [force |-> force, subscribers |-> <<>>, sent_ids |-> {}, all_events |-> <<>>,
     to_send |-> <<>>, message |-> <<>>, sent |-> 0, failed |-> 0,
     result |-> NoResult,
     tried |-> <<>>,       \* history: the send_message calls of the loop
     reset |-> FALSE,      \* history: the reset policy was applied
     repeat |-> FALSE,     \* history: to_send holds an id announced before
     net |-> 0]            \* history: fetches and send_message calls made

NoFrame == Frame(FALSE)

\* run_scheduler's arguments for save_last_run (None is {}), and the data
\* save_last_run is about to dump
NoSch == [day_str |-> {}, ts |-> {}, data |-> MissingRun]

\* ------------------------------------------------------------- the fetch

\* the order the getters are submitted in
SubmitOrder == <<"get_luma_events", "get_meetup_events", "get_devto_events",
                 "get_techcrunch_events", "get_wired_events">>

\* every order the futures can complete in
Orders ==
    {o \in [1..Len(SubmitOrder) -> sources] :
        \A i, j \in 1..Len(SubmitOrder) : i # j => o[i] # o[j]}

\* what the futures return when exactly the getters in up reach their provider
Results(up) == [g \in sources |-> IF g \in up THEN AdapterEvents(g) ELSE <<>>]

\* the outages a broadcast cycle is checked against
CycleUps == {{}, {"get_luma_events"}}

\* ----------------------------------------------------------------- Init

Configs == {<<2, 3>>, <<10, 15>>}

InitLedgers == {MissingFile, JsonIds({"luma_a", "cur_1"})}

\* the marker an earlier run left: none, yesterday's or today's day in
\* daily mode; none or the start's own second in interval mode
InitRuns(interval) ==
    IF interval = 0
    THEN {MissingRun, JsonRun({0 - 1}, {}), JsonRun({0}, {})}
    ELSE {MissingRun, JsonRun({}, {now_ts(0)})}

\* everything but subscribers.json and the time
InitOther ==
    /\ sentFile \in InitLedgers
    /\ lastRunFile \in InitRuns(TEST_INTERVAL_MINS)
    /\ pc = [t \in Threads |-> IF t = "sched" THEN "sleep" ELSE "idle"]
    /\ bc = [t \in Threads |-> NoFrame]
    /\ sch = NoSch
    /\ adminCalls = 0
    /\ fires = [d \in Days |-> 0]
    /\ dueTicks = {}
    /\ boot = lastRunFile.last_sent_day
    /\ announced = {}
    /\ ledgerHigh = sentFile.ids
    /\ wh_res = Results({})
    /\ wh_order = <<>>
    /\ wh_events = <<>>
    /\ wh_subs = [h \in Requests |-> NoRequest]
    /\ wh_out = [g \in sources |-> "events"]
    /\ wh_phase = "idle"
    /\ hash_seed = 1
    /\ restarts = 0
    /\ lastFire = {}
    /\ midCrash = {}
    /\ idsGiven = [h \in 1..NLive |-> {}]
    /\ io = [fails |-> 0, pending |-> "none"]
    /\ returned = {}

\* everything but subscribers.json
InitRest ==
    /\ clock = 0
    /\ InitOther

InitCommon ==
    /\ subscribersFile = MissingSubs
    /\ InitRest

\* the process after the module is loaded: both threads at rest, the files
\* as an earlier run left them
Init ==
    /\ MIN_EVENTS = 2
    /\ MAX_EVENTS = 3
    /\ TEST_INTERVAL_MINS \in {0, ClockStepMins}
    /\ InitCommon

\* ---------------------------------------------------------- environment

\* time passes
AdvanceClock ==
    /\ clock < MaxClock
    /\ clock' = clock + 1
    /\ UNCHANGED <<config, proc, files, pc, bc, sch, adminCalls, history, wh>>

\* request h is the next to arrive
Arrives(h) ==
    /\ wh_subs[h].pc = "none"
    /\ \A k \in Requests : k < h => wh_subs[k].pc # "none"

\* webhook, text "/start": subscribers = load_subscribers() raises on an
\* empty file and the handler ends there; otherwise the chat is added to
\* the dict when it is not a subscriber (a subscriber only gets the reply)
WebhookStart(h, chat_id) ==
    /\ Arrives(h)
    /\ ~load_subscribers_raises
    /\ LET subscribers == load_subscribers
       IN  /\ ~(\E i \in 1..Len(subscribers) : subscribers[i] = chat_id)
           /\ wh_subs' = [wh_subs EXCEPT ![h] =
                              [pc |-> "save_subscribers",
                               subscribers |-> Append(subscribers, chat_id)]]
    /\ UNCHANGED <<config, proc, clock, files, pc, bc, sch, adminCalls, history,
                   wh_res, wh_order, wh_events, wh_out, wh_phase>>

\* webhook, text "/stop": past load_subscribers(), the chat is deleted from
\* the dict when it is a subscriber (anyone else only gets the reply)
WebhookStop(h, chat_id) ==
    /\ Arrives(h)
    /\ ~load_subscribers_raises
    /\ LET subscribers == load_subscribers
       IN  /\ \E i \in 1..Len(subscribers) : subscribers[i] = chat_id
           /\ wh_subs' = [wh_subs EXCEPT ![h] =
                              [pc |-> "save_subscribers",
                               subscribers |->
                                   SelectSeq(subscribers, LAMBDA c : c # chat_id)]]
    /\ UNCHANGED <<config, proc, clock, files, pc, bc, sch, adminCalls, history,
                   wh_res, wh_order, wh_events, wh_out, wh_phase>>

\* save_subscribers opens the file for writing, which empties it
SaveSubscribersOpen(h) ==
    /\ wh_subs[h].pc = "save_subscribers"
    /\ subscribersFile' = EmptySubs
    /\ wh_subs' = [wh_subs EXCEPT ![h].pc = "json_dump"]
    /\ UNCHANGED <<config, proc, clock, sentFile, lastRunFile, pc, bc, sch,
                   adminCalls, history, wh_res, wh_order, wh_events,
                   wh_out, wh_phase>>

\* json.dump(subs, f, indent=2) of save_subscribers and the close; the
\* handler then sends its reply and returns "ok"
SaveSubscribersDump(h) ==
    /\ wh_subs[h].pc = "json_dump"
    /\ subscribersFile' = DumpedSubs(wh_subs[h].subscribers)
    /\ wh_subs' = [wh_subs EXCEPT ![h] = [pc |-> "ok", subscribers |-> <<>>]]
    /\ UNCHANGED <<config, proc, clock, sentFile, lastRunFile, pc, bc, sch,
                   adminCalls, history, wh_res, wh_order, wh_events,
                   wh_out, wh_phase>>

\* the webhook requests that change subscribers.json
webhook ==
    \E h \in Requests :
        \/ \E chat_id \in ChatIds : WebhookStart(h, chat_id)
        \/ \E chat_id \in ChatIds : WebhookStop(h, chat_id)
        \/ SaveSubscribersOpen(h)
        \/ SaveSubscribersDump(h)

\* ------------------------------------------------------ broadcast_events

\* a cycle that goes on without subscribers
NeverShortCircuit(subscribers) == FALSE

\* "if not subscribers:"
ShortCircuit(subscribers) == subscribers = <<>>

\* subscribers = load_subscribers(); the empty set returns at once
LoadSubscribers(t) ==
    /\ pc[t] = "load_subscribers"
    /\ ~load_subscribers_raises
    /\ IF ShortCircuit(load_subscribers)
       THEN /\ bc' = [bc EXCEPT ![t].result = [sent |-> 0, failed |-> 0, events |-> 0]]
            /\ pc' = [pc EXCEPT ![t] = "return"]
       ELSE /\ bc' = [bc EXCEPT ![t].subscribers = load_subscribers]
            /\ pc' = [pc EXCEPT ![t] = "load_sent_ids"]
    /\ UNCHANGED <<config, proc, clock, files, sch, adminCalls, history, wh>>

\* load_subscribers() or load_sent_ids() raises: broadcast_events is left
\* by the exception, which run_scheduler's except clause logs (then it
\* sleeps, save_last_run skipped) and which ends the admin request with an
\* error
Raises(t) ==
    /\ \/ pc[t] = "load_subscribers" /\ load_subscribers_raises
       \/ pc[t] = "load_sent_ids" /\ load_sent_ids_raises
    /\ bc' = [bc EXCEPT ![t] = NoFrame]
    /\ pc' = [pc EXCEPT ![t] = IF t = "sched" THEN "sleep" ELSE "idle"]
    /\ sch' = IF t = "sched" THEN NoSch ELSE sch
    /\ UNCHANGED <<config, proc, clock, files, adminCalls, history, wh>>

\* sent_ids = load_sent_ids(); then get_all_events() is called and the
\* thread waits for the providers
LoadSentIds(t) ==
    /\ pc[t] = "load_sent_ids"
    /\ ~load_sent_ids_raises
    /\ bc' = [bc EXCEPT ![t].sent_ids = load_sent_ids]
    /\ pc' = [pc EXCEPT ![t] = "get_all_events"]
    /\ UNCHANGED <<config, proc, clock, files, sch, adminCalls, history, wh>>

\* all_events = get_all_events() returns; then new_events, to_send and
\* message, which touch nothing shared
Collect(t) ==
    /\ pc[t] = "get_all_events"
    /\ \E up \in CycleUps :
        LET f          == bc[t]
            sent_ids   == f.sent_ids
            all_events == get_all_events(Results(up), SubmitOrder)
            to_send    == ToSend(all_events, sent_ids, f.force)
        IN  /\ bc' = [bc EXCEPT ![t].all_events = all_events,
                                ![t].to_send = to_send,
                                ![t].message = build_message(to_send),
                                ![t].reset = ~f.force /\
                                    Len(Unseen(all_events, sent_ids)) < MIN_EVENTS,
                                ![t].repeat = Ids(to_send) \cap announced # {},
                                ![t].net = f.net + 1]
            /\ announced' = IF f.force THEN announced
                            ELSE announced \cup Ids(to_send)
    /\ pc' = [pc EXCEPT ![t] = "send_message"]
    /\ UNCHANGED <<config, proc, clock, files, sch, adminCalls, fires, dueTicks,
                   boot, ledgerHigh, lastFire, ghosts, wh>>

\* the ledger is written after every cycle, forced or not
AfterSendAlways(force) == "save_sent_ids"

\* "if not force:" after the loop: a forced cycle goes straight to the return
AfterSend(force) == IF force THEN "return" ELSE "save_sent_ids"

\* what a call of send_message meets: resp.ok, a response that is not ok,
\* or an exception of requests.post
SendOutcomes == {"ok", "not_ok", "exception"}

\* send_message: resp.ok, and False from the except clause
send_message(outcome) == outcome = "ok"

\* a loop that gives up at the first failed send
SendLoopDoneOnFail(f) ==
    Len(f.tried) = Len(f.subscribers) \/ f.failed > 0

\* "for chat_id in subscribers" is exhausted
SendLoopDone(f) == Len(f.tried) = Len(f.subscribers)

\* an iteration that drops from subscribers.json the chat whose send failed
SendMessagePruning(t) ==
    /\ pc[t] = "send_message"
    /\ ~SendLoopDone(bc[t])
    /\ \E outcome \in SendOutcomes :
        LET f       == bc[t]
            chat_id == f.subscribers[Len(f.tried) + 1]
            ok      == send_message(outcome)
        IN  /\ bc' = [bc EXCEPT ![t].sent = IF ok THEN f.sent + 1 ELSE f.sent,
                                ![t].failed = IF ok THEN f.failed ELSE f.failed + 1,
                                ![t].net = f.net + 1,
                                ![t].tried = Append(f.tried,
                                    [chat_id |-> chat_id, text |-> f.message,
                                     outcome |-> outcome])]
            /\ subscribersFile' =
                   IF ok THEN subscribersFile
                   ELSE JsonSubs(SelectSeq(load_subscribers,
                                           LAMBDA c : c # chat_id))
    /\ UNCHANGED <<config, proc, clock, sentFile, lastRunFile, pc, sch,
                   adminCalls, history, wh>>

\* one iteration of the loop "for chat_id in subscribers"
SendMessage(t) ==
    /\ pc[t] = "send_message"
    /\ ~SendLoopDone(bc[t])
    /\ \E outcome \in SendOutcomes :
        LET f       == bc[t]
            chat_id == f.subscribers[Len(f.tried) + 1]
            ok      == send_message(outcome)
        IN  bc' = [bc EXCEPT ![t].sent = IF ok THEN f.sent + 1 ELSE f.sent,
                             ![t].failed = IF ok THEN f.failed ELSE f.failed + 1,
                             ![t].net = f.net + 1,
                             ![t].tried = Append(f.tried,
                                 [chat_id |-> chat_id, text |-> f.message,
                                  outcome |-> outcome])]
    /\ UNCHANGED <<config, proc, clock, files, pc, sch, adminCalls, history, wh>>

\* the loop is over: on to "if not force:"
SendLoopEnd(t) ==
    /\ pc[t] = "send_message"
    /\ SendLoopDone(bc[t])
    /\ LET f == bc[t]
       IN  bc' = [bc EXCEPT ![t].result =
                      IF AfterSend(f.force) = "return"
                      THEN [sent |-> f.sent, failed |-> f.failed,
                            events |-> Len(f.to_send)]
                      ELSE f.result]
    /\ pc' = [pc EXCEPT ![t] = AfterSend(bc[t].force)]
    /\ UNCHANGED <<config, proc, clock, files, sch, adminCalls, history, wh>>

\* the ids are added only when a send succeeded
SaveSentIdsOpenIfSent(t) ==
    /\ pc[t] = "save_sent_ids"
    /\ bc' = [bc EXCEPT ![t].sent_ids =
                  IF bc[t].sent > 0 THEN bc[t].sent_ids \cup Ids(bc[t].to_send)
                  ELSE bc[t].sent_ids]
    /\ sentFile' = EmptyFile
    /\ pc' = [pc EXCEPT ![t] = "json_dump"]
    /\ UNCHANGED <<config, proc, clock, subscribersFile, lastRunFile, sch,
                   adminCalls, history, wh>>

\* if not force: sent_ids.update(...), then save_sent_ids opens the file
\* for writing, which empties it
SaveSentIdsOpen(t) ==
    /\ pc[t] = "save_sent_ids"
    /\ bc' = [bc EXCEPT ![t].sent_ids = bc[t].sent_ids \cup Ids(bc[t].to_send)]
    /\ sentFile' = EmptyFile
    /\ pc' = [pc EXCEPT ![t] = "json_dump"]
    /\ UNCHANGED <<config, proc, clock, subscribersFile, lastRunFile, sch,
                   adminCalls, history, wh>>

\* a write of the file has succeeded
Settled(file) == IF io.pending = file THEN [io EXCEPT !.pending = "none"] ELSE io

\* json.dump(list(ids), f) and the close; broadcast_events returns its counts
SaveSentIdsDump(t) ==
    /\ pc[t] = "json_dump"
    /\ sentFile' = DumpedIds(bc[t].sent_ids)
    /\ io' = Settled("sent_ids.json")
    /\ ledgerHigh' = ledgerHigh \cup sentFile'.ids
    /\ bc' = [bc EXCEPT ![t].result = [sent |-> bc[t].sent, failed |-> bc[t].failed,
                                       events |-> Len(bc[t].to_send)]]
    /\ pc' = [pc EXCEPT ![t] = "return"]
    /\ UNCHANGED <<config, proc, clock, subscribersFile, lastRunFile, sch,
                   adminCalls, fires, dueTicks, boot, announced, lastFire,
                   midCrash, idsGiven, returned, wh>>

broadcast_events(t) ==
    \/ LoadSubscribers(t)
    \/ Raises(t)
    \/ LoadSentIds(t)
    \/ Collect(t)
    \/ SendMessage(t)
    \/ SendLoopEnd(t)
    \/ SaveSentIdsOpen(t)
    \/ SaveSentIdsDump(t)

\* ------------------------------------------------------- admin_broadcast

\* POST /admin/broadcast with the right password: broadcast_events()
AdminBroadcast ==
    /\ pc["admin"] = "idle"
    /\ adminCalls < MaxAdminCalls
    /\ adminCalls' = adminCalls + 1
    /\ pc' = [pc EXCEPT !["admin"] = "load_subscribers"]
    /\ bc' = [bc EXCEPT !["admin"] = Frame(FALSE)]
    /\ UNCHANGED <<config, proc, clock, files, sch, history, wh>>

\* a manual broadcast that marks the day as sent
AdminReturnMarksDay ==
    /\ pc["admin"] = "return"
    /\ pc' = [pc EXCEPT !["admin"] = "idle"]
    /\ bc' = [bc EXCEPT !["admin"] = NoFrame]
    /\ lastRunFile' = JsonRun({today_str(clock)}, lastRunFile.last_sent_ts)
    /\ UNCHANGED <<config, proc, clock, subscribersFile, sentFile, sch,
                   adminCalls, history, wh>>

\* return jsonify(broadcast_events())
AdminReturn ==
    /\ pc["admin"] = "return"
    /\ pc' = [pc EXCEPT !["admin"] = "idle"]
    /\ bc' = [bc EXCEPT !["admin"] = NoFrame]
    /\ UNCHANGED <<config, proc, clock, files, sch, adminCalls, history, wh>>

\* --------------------------------------------------------- run_scheduler

Bump(f, d) == [f EXCEPT ![d] = Min2(f[d] + 1, FireCap)]

\* the daily test with the marker ignored
DailyDueNoMarker(c, last_sent_day) == now_total(c) >= snd_total

\* the daily test passing only after the minute of the send time
DailyDueStrict(c, last_sent_day) ==
    now_total(c) > snd_total /\ last_sent_day # {today_str(c)}

\* the daily test without the time of day
DailyDueAnyTime(c, last_sent_day) == last_sent_day # {today_str(c)}

\* "if now_total >= snd_total and last_sent_day != today_str"
DailyDue(c, last_sent_day) ==
    now_total(c) >= snd_total /\ last_sent_day # {today_str(c)}

\* "wait_sec <= 0"
IntervalDue(c, last_ts) ==
    (last_ts + TEST_INTERVAL_MINS * 60) - now_ts(c) <= 0

\* a tick in daily mode that calls broadcast_events()
TickDailyFire ==
    /\ pc["sched"] = "sleep"
    /\ TEST_INTERVAL_MINS = 0
    /\ DailyDue(clock, load_last_run)
    /\ sch' = [day_str |-> {today_str(clock)}, ts |-> {}, data |-> MissingRun]
    /\ pc' = [pc EXCEPT !["sched"] = "load_subscribers"]
    /\ bc' = [bc EXCEPT !["sched"] = Frame(FALSE)]
    /\ fires' = Bump(fires, today_str(clock))
    /\ dueTicks' = dueTicks \cup {today_str(clock)}
    /\ UNCHANGED <<config, proc, clock, files, adminCalls, boot, announced,
                   ledgerHigh, lastFire, ghosts, wh>>

\* a tick in daily mode that does nothing, then time.sleep(20)
TickDailyWait ==
    /\ pc["sched"] = "sleep"
    /\ TEST_INTERVAL_MINS = 0
    /\ ~DailyDue(clock, load_last_run)
    /\ dueTicks' = IF now_total(clock) >= snd_total
                   THEN dueTicks \cup {today_str(clock)} ELSE dueTicks
    /\ UNCHANGED <<config, proc, clock, files, pc, bc, sch, adminCalls, fires,
                   boot, announced, ledgerHigh, lastFire, ghosts, wh>>

\* a tick in interval mode that calls broadcast_events()
TickIntervalFireUnforced ==
    /\ pc["sched"] = "sleep"
    /\ TEST_INTERVAL_MINS > 0
    /\ IntervalDue(clock, load_last_run_timestamp)
    /\ sch' = [day_str |-> {}, ts |-> {now_ts(clock)}, data |-> MissingRun]
    /\ pc' = [pc EXCEPT !["sched"] = "load_subscribers"]
    /\ bc' = [bc EXCEPT !["sched"] = Frame(FALSE)]
    /\ fires' = Bump(fires, today_str(clock))
    /\ lastFire' = {now_ts(clock)}
    /\ UNCHANGED <<config, proc, clock, files, adminCalls, dueTicks, boot,
                   announced, ledgerHigh, ghosts, wh>>

\* a tick in interval mode that calls broadcast_events(force=True)
TickIntervalFire ==
    /\ pc["sched"] = "sleep"
    /\ TEST_INTERVAL_MINS > 0
    /\ IntervalDue(clock, load_last_run_timestamp)
    /\ sch' = [day_str |-> {}, ts |-> {now_ts(clock)}, data |-> MissingRun]
    /\ pc' = [pc EXCEPT !["sched"] = "load_subscribers"]
    /\ bc' = [bc EXCEPT !["sched"] = Frame(TRUE)]
    /\ fires' = Bump(fires, today_str(clock))
    /\ lastFire' = {now_ts(clock)}
    /\ UNCHANGED <<config, proc, clock, files, adminCalls, dueTicks, boot,
                   announced, ledgerHigh, ghosts, wh>>

\* a tick in interval mode before the interval is over
TickIntervalWait ==
    /\ pc["sched"] = "sleep"
    /\ TEST_INTERVAL_MINS > 0
    /\ ~IntervalDue(clock, load_last_run_timestamp)
    /\ UNCHANGED vars

\* save_last_run only after a call that sent events
SaveLastRunOpenIfEvents ==
    /\ pc["sched"] = "return"
    /\ IF bc["sched"].result.events > 0
       THEN /\ sch' = [sch EXCEPT !.data = save_last_run_data(sch.day_str, sch.ts)]
            /\ lastRunFile' = EmptyRun
            /\ pc' = [pc EXCEPT !["sched"] = "save_last_run"]
       ELSE /\ sch' = NoSch
            /\ lastRunFile' = lastRunFile
            /\ pc' = [pc EXCEPT !["sched"] = "sleep"]
    /\ bc' = [bc EXCEPT !["sched"] = NoFrame]
    /\ returned' = returned \cup sch.day_str
    /\ UNCHANGED <<config, proc, clock, subscribersFile, sentFile, adminCalls,
                   fires, dueTicks, boot, announced, ledgerHigh, lastFire,
                   midCrash, idsGiven, io, wh>>

\* save_last_run after broadcast_events has returned: the file is read
\* back, the argument set, and the file opened for writing
SaveLastRunOpen ==
    /\ pc["sched"] = "return"
    /\ sch' = [sch EXCEPT !.data = save_last_run_data(sch.day_str, sch.ts)]
    /\ lastRunFile' = EmptyRun
    /\ bc' = [bc EXCEPT !["sched"] = NoFrame]
    /\ pc' = [pc EXCEPT !["sched"] = "save_last_run"]
    /\ returned' = returned \cup sch.day_str
    /\ UNCHANGED <<config, proc, clock, subscribersFile, sentFile, adminCalls,
                   fires, dueTicks, boot, announced, ledgerHigh, lastFire,
                   midCrash, idsGiven, io, wh>>

\* json.dump(data, f) of save_last_run, then time.sleep(20)
SaveLastRunDump ==
    /\ pc["sched"] = "save_last_run"
    /\ lastRunFile' = sch.data
    /\ io' = Settled("last_run.json")
    /\ sch' = NoSch
    /\ pc' = [pc EXCEPT !["sched"] = "sleep"]
    /\ UNCHANGED <<config, proc, clock, subscribersFile, sentFile, bc, adminCalls,
                   fires, dueTicks, boot, announced, ledgerHigh, lastFire,
                   midCrash, idsGiven, returned, wh>>

run_scheduler ==
    \/ TickDailyFire
    \/ TickDailyWait
    \/ TickIntervalFire
    \/ TickIntervalWait
    \/ SaveLastRunOpen
    \/ SaveLastRunDump

\* ------------------------------------------------------------------ Spec

Next ==
    \/ AdvanceClock
    \/ webhook
    \/ AdminBroadcast
    \/ AdminReturn
    \/ run_scheduler
    \/ \E t \in Threads : broadcast_events(t)

Spec == Init /\ [][Next]_vars

\* --------------------------------------------------- the /events command

\* webhook, text "/events": past load_subscribers(), the notice is sent and
\* get_all_events() is called
WebhookEventsText ==
    /\ wh_phase = "idle"
    /\ ~load_subscribers_raises
    /\ wh_phase' = "get_all_events"
    /\ UNCHANGED <<config, proc, clock, files, pc, bc, sch, adminCalls, history,
                   wh_res, wh_order, wh_events, wh_subs, wh_out>>

\* webhook, callback_query with data "get_events" (the button): the notice
\* is sent and get_all_events() is called; this branch returns before the
\* handler reads subscribers.json
WebhookEventsButton ==
    /\ wh_phase = "idle"
    /\ wh_phase' = "get_all_events"
    /\ UNCHANGED <<config, proc, clock, files, pc, bc, sch, adminCalls, history,
                   wh_res, wh_order, wh_events, wh_subs, wh_out>>

\* events = get_all_events() returns to the handler, under any outage and
\* any completion order
WebhookEvents ==
    /\ wh_phase = "get_all_events"
    /\ \E up \in SUBSET sources, order \in Orders :
        /\ wh_res' = Results(up)
        /\ wh_order' = order
        /\ wh_events' = get_all_events(Results(up), order)
    /\ wh_phase' = "reply"
    /\ UNCHANGED <<config, proc, clock, files, pc, bc, sch, adminCalls, history,
                   wh_subs, wh_out>>

\* the reply with events[:MAX_EVENTS] is sent and the handler returns "ok"
WebhookEventsReply ==
    /\ wh_phase = "reply"
    /\ wh_res' = Results({})
    /\ wh_order' = <<>>
    /\ wh_events' = <<>>
    /\ wh_phase' = "idle"
    /\ UNCHANGED <<config, proc, clock, files, pc, bc, sch, adminCalls, history,
                   wh_subs, wh_out>>

\* subscribers.json is missing, or left with 0 bytes by a process killed
\* between the open and the dump of save_subscribers
InitAgg ==
    /\ \E c \in Configs : MIN_EVENTS = c[1] /\ MAX_EVENTS = c[2]
    /\ TEST_INTERVAL_MINS = 0
    /\ subscribersFile \in {MissingSubs, EmptySubs}
    /\ InitRest

NextAgg ==
    \/ WebhookEventsText
    \/ WebhookEventsButton
    \/ WebhookEvents
    \/ WebhookEventsReply

SpecAgg == InitAgg /\ [][NextAgg]_vars

\* ------------------------------------------- a cycle, send by send

\* the chats that may have subscribed before a cycle starts
SendChats == {1, 2, 3}

\* the dicts subscribers.json may hold, in insertion order
SubscriberLists ==
    {s \in UNION {[1..n -> SendChats] : n \in 0..Cardinality(SendChats)} :
        \A i, j \in 1..Len(s) : i # j => s[i] # s[j]}

InitSend ==
    /\ MIN_EVENTS = 2
    /\ MAX_EVENTS = 3
    /\ TEST_INTERVAL_MINS \in {0, ClockStepMins}
    /\ \E subs \in SubscriberLists \ {<<>>} : subscribersFile = JsonSubs(subs)
    /\ InitRest

\* the scheduler's cycles, forced and not, with the loop of
\* broadcast_events taken one send_message call at a time
NextSend ==
    \/ AdvanceClock
    \/ run_scheduler
    \/ LoadSubscribers("sched")
    \/ LoadSentIds("sched")
    \/ Collect("sched")
    \/ SendMessage("sched")
    \/ SendLoopEnd("sched")
    \/ SaveSentIdsOpen("sched")
    \/ SaveSentIdsDump("sched")

SpecSend == InitSend /\ [][NextSend]_vars

\* ------------------------------------- get_all_events, future by future

\* how a getter's future ends: it returns events, it returns [] (the
\* getter caught its own error), result() raises, or it never completes
FutureOutcomes == {"events", "empty", "raise", "hang"}

\* at most one getter hangs
OutcomeMaps ==
    {out \in [sources -> FutureOutcomes] :
        Cardinality({g \in sources : out[g] = "hang"}) <= 1}

\* what each future holds: for a raising one, the events that are lost
\* with the exception
FutureResults(out) ==
    [g \in sources |-> IF out[g] \in {"events", "raise"}
                       THEN AdapterEvents(g) ELSE <<>>]

\* the futures whose result() raises
Raising(out) == {g \in sources : out[g] = "raise"}

InitFetch ==
    /\ MIN_EVENTS = 2
    /\ MAX_EVENTS = 3
    /\ TEST_INTERVAL_MINS = 0
    /\ sentFile = MissingFile
    /\ lastRunFile = MissingRun
    /\ InitCommon

\* executor.submit(getter) for getter in sources
FetchSubmit ==
    /\ wh_phase = "idle"
    /\ \E out \in OutcomeMaps :
        /\ wh_out' = out
        /\ wh_res' = FutureResults(out)
    /\ wh_order' = <<>>
    /\ wh_events' = <<>>
    /\ wh_phase' = "as_completed"
    /\ UNCHANGED <<config, proc, clock, files, pc, bc, sch, adminCalls, history,
                   wh_subs>>

\* as_completed yields the future of getter g
FutureDone(g) ==
    /\ wh_phase = "as_completed"
    /\ wh_out[g] # "hang"
    /\ \A i \in 1..Len(wh_order) : wh_order[i] # g
    /\ wh_order' = Append(wh_order, g)
    /\ UNCHANGED <<config, proc, clock, files, pc, bc, sch, adminCalls, history,
                   wh_res, wh_events, wh_subs, wh_out, wh_phase>>

\* as_completed is exhausted and the executor shut down: dedup, padding,
\* return
FetchReturn ==
    /\ wh_phase = "as_completed"
    /\ Len(wh_order) = Cardinality(sources)
    /\ wh_events' = get_all_events(Extended(wh_res, Raising(wh_out)), wh_order)
    /\ wh_phase' = "returned"
    /\ UNCHANGED <<config, proc, clock, files, pc, bc, sch, adminCalls, history,
                   wh_res, wh_order, wh_subs, wh_out>>

NextFetch ==
    \/ FetchSubmit
    \/ \E g \in sources : FutureDone(g)
    \/ FetchReturn

SpecFetch == InitFetch /\ [][NextFetch]_vars

\* the pool's threads and the calling thread keep running
SpecFetchFair == SpecFetch /\ WF_vars(NextFetch)

\* ------------------------------------------- the process killed, restarted

\* the frame of the scheduler's cycle is between two send_message calls,
\* one of which delivered
MidDispatch ==
    /\ pc["sched"] = "send_message"
    /\ \E i \in 1..Len(bc["sched"].tried) : bc["sched"].tried[i].outcome = "ok"

\* the process is killed at any point and started again: the files stay as
\* they are, the module is loaded, the scheduler thread starts its loop
\* and str hashes get the seed of the new run
Crash ==
    /\ restarts < MaxRestarts
    /\ restarts' = restarts + 1
    /\ hash_seed' \in Seeds
    /\ pc' = [t \in Threads |-> IF t = "sched" THEN "sleep" ELSE "idle"]
    /\ bc' = [t \in Threads |-> NoFrame]
    /\ sch' = NoSch
    /\ wh_res' = Results({})
    /\ wh_order' = <<>>
    /\ wh_events' = <<>>
    /\ wh_subs' = [h \in Requests |-> NoRequest]
    /\ wh_out' = [g \in sources |-> "events"]
    /\ wh_phase' = "idle"
    /\ boot' = load_last_run
    /\ midCrash' = IF MidDispatch
                   THEN midCrash \cup {[day_str |-> sch.day_str, ts |-> sch.ts]}
                   ELSE midCrash
    /\ UNCHANGED <<config, clock, files, adminCalls, fires, dueTicks, announced,
                   ledgerHigh, lastFire, idsGiven, io, returned>>

InitCrash ==
    /\ MIN_EVENTS = 2
    /\ MAX_EVENTS = 3
    /\ TEST_INTERVAL_MINS \in {0, ClockStepMins}
    /\ subscribersFile = JsonSubs(<<1, 2>>)
    /\ InitRest

\* the scheduler's cycles, send by send, in a process that can be killed
NextCrash ==
    \/ AdvanceClock
    \/ run_scheduler
    \/ LoadSubscribers("sched")
    \/ Raises("sched")
    \/ LoadSentIds("sched")
    \/ Collect("sched")
    \/ SendMessage("sched")
    \/ SendLoopEnd("sched")
    \/ SaveSentIdsOpen("sched")
    \/ SaveSentIdsDump("sched")
    \/ Crash

SpecCrash == InitCrash /\ [][NextCrash]_vars

\* ------------------------------------------------ the ids of the records

\* the records of the getters in up
RecordsOf(up) ==
    {h \in 1..NLive : \E g \in up : \E k \in 1..Len(AdapterEvents(g)) :
                          AdapterEvents(g)[k] = h}

\* a call of get_all_events in which the getters in up reach their
\* provider: each builds the dicts of its records, "id" included
FetchRecords ==
    /\ \E up \in SUBSET sources :
        /\ up # {}
        /\ idsGiven' = [h \in 1..NLive |->
                           IF h \in RecordsOf(up)
                           THEN idsGiven[h] \cup {EvId(h)}
                           ELSE idsGiven[h]]
    /\ UNCHANGED <<config, proc, clock, files, pc, bc, sch, adminCalls, fires,
                   dueTicks, boot, announced, ledgerHigh, lastFire, midCrash, io,
                   returned, wh>>

InitIds ==
    /\ MIN_EVENTS = 2
    /\ MAX_EVENTS = 3
    /\ TEST_INTERVAL_MINS = 0
    /\ sentFile \in InitLedgers
    /\ lastRunFile = MissingRun
    /\ InitCommon

NextIds ==
    \/ FetchRecords
    \/ Crash

SpecIds == InitIds /\ [][NextIds]_vars

\* ----------------------------------------------------- writes that fail

\* the write of a file raises OSError
Failed(file) == [fails |-> io.fails + 1, pending |-> file]

\* the exception leaves broadcast_events or save_last_run; the except
\* clause of run_scheduler logs it and the loop sleeps
SchedulerCatches ==
    /\ pc' = [pc EXCEPT !["sched"] = "sleep"]
    /\ bc' = [bc EXCEPT !["sched"] = NoFrame]
    /\ sch' = NoSch

\* save_sent_ids: open(SENT_FILE, "w") raises, the file is as it was
SaveSentIdsOpenFails ==
    /\ pc["sched"] = "save_sent_ids"
    /\ io.fails < MaxWriteFails
    /\ io' = Failed("sent_ids.json")
    /\ SchedulerCatches
    /\ UNCHANGED <<config, proc, clock, files, adminCalls, fires, dueTicks, boot,
                   announced, ledgerHigh, lastFire, midCrash, idsGiven,
                   returned, wh>>

\* save_sent_ids: the file is open and emptied, the write or the close
\* raises
SaveSentIdsDumpFails ==
    /\ pc["sched"] = "json_dump"
    /\ io.fails < MaxWriteFails
    /\ io' = Failed("sent_ids.json")
    /\ SchedulerCatches
    /\ UNCHANGED <<config, proc, clock, files, adminCalls, fires, dueTicks, boot,
                   announced, ledgerHigh, lastFire, midCrash, idsGiven,
                   returned, wh>>

\* broadcast_events has returned; save_last_run: open(LAST_RUN_FILE, "w")
\* raises, the file is as it was
SaveLastRunOpenFails ==
    /\ pc["sched"] = "return"
    /\ io.fails < MaxWriteFails
    /\ io' = Failed("last_run.json")
    /\ returned' = returned \cup sch.day_str
    /\ SchedulerCatches
    /\ UNCHANGED <<config, proc, clock, files, adminCalls, fires, dueTicks, boot,
                   announced, ledgerHigh, lastFire, midCrash, idsGiven, wh>>

\* save_last_run: the file is open and emptied, the write or the close
\* raises
SaveLastRunDumpFails ==
    /\ pc["sched"] = "save_last_run"
    /\ io.fails < MaxWriteFails
    /\ io' = Failed("last_run.json")
    /\ SchedulerCatches
    /\ UNCHANGED <<config, proc, clock, files, adminCalls, fires, dueTicks, boot,
                   announced, ledgerHigh, lastFire, midCrash, idsGiven,
                   returned, wh>>

WriteFails ==
    \/ SaveSentIdsOpenFails
    \/ SaveSentIdsDumpFails
    \/ SaveLastRunOpenFails
    \/ SaveLastRunDumpFails

InitIO ==
    /\ MIN_EVENTS = 2
    /\ MAX_EVENTS = 3
    /\ TEST_INTERVAL_MINS \in {0, ClockStepMins}
    /\ subscribersFile \in {MissingSubs, JsonSubs(<<1>>)}
    /\ clock \in 0..MaxClock
    /\ InitOther

\* the steps of the scheduler thread
SchedulerThread ==
    \/ run_scheduler
    \/ broadcast_events("sched")

\* the ticks at one time of day, 20 seconds apart
NextIO ==
    \/ SchedulerThread
    \/ WriteFails

SpecIO == InitIO /\ [][NextIO]_vars

\* the scheduler thread keeps running
SpecIOFair == SpecIO /\ WF_vars(SchedulerThread)

\* ================================================================ claims

InCycle(t) == pc[t] \in {"load_subscribers", "load_sent_ids", "get_all_events",
                         "send_message",
                         "save_sent_ids", "json_dump", "return"}

Selected(t) == pc[t] \in {"send_message", "save_sent_ids", "json_dump", "return"}

AtRest == pc["sched"] = "sleep" /\ pc["admin"] = "idle"

\* C1: in daily mode the scheduler invokes exactly one broadcast cycle on a
\* day that has a poll tick at or after the send time: never more than one,
\* and one as soon as such a tick has run (the one of an earlier run of the
\* same day, which left its marker, counted).
C1_SingleFire ==
    TEST_INTERVAL_MINS = 0 =>
        \A d \in Days :
            /\ fires[d] <= 1
            /\ d \in dueTicks => fires[d] + (IF boot = {d} THEN 1 ELSE 0) = 1

\* C2: a scheduler started in daily mode with last_sent_day equal to today's
\* date invokes no broadcast cycle for the rest of that day, whatever the
\* time of day of its ticks.
C2_RestartSafety ==
    (TEST_INTERVAL_MINS = 0 /\ boot = {0}) =>
        /\ fires[0] = 0
        /\ today_str(clock) = 0 => pc["sched"] = "sleep"

C2_Witness ==
    /\ TEST_INTERVAL_MINS = 0
    /\ boot = {0}
    /\ 0 \in dueTicks
    /\ today_str(clock) = 0
    /\ now_total(clock) > snd_total

\* C3: no id is in the to_send list of two non-forced cycles, unless the
\* later of the two applied the reset policy; also when the two cycles
\* overlap.
C3_NoRepeatedDelivery ==
    \A t \in Threads :
        (Selected(t) /\ ~bc[t].force /\ ~bc[t].reset) => ~bc[t].repeat

\* C4: an id that sent_ids.json has held is in it whenever the file holds a
\* document: the ledger never loses an id.
C4_LedgerMonotone ==
    sentFile.st \in {"missing", "json"} => ledgerHigh \subseteq sentFile.ids

\* C5: once the cycles have returned, every id of the to_send list of every
\* non-forced cycle is in sent_ids.json: no update is lost.
C5_NoLostUpdate ==
    AtRest => announced \subseteq sentFile.ids

\* C6: a forced cycle sends the first MAX_EVENTS collected events, filtered
\* against nothing, and none of its steps changes sent_ids.json.
C6_ForceLeavesLedger ==
    /\ [](\A t \in Threads :
            (bc[t].force /\ Selected(t) /\ bc[t].subscribers # <<>>) =>
                /\ Len(bc[t].to_send) = Min2(MAX_EVENTS, Len(bc[t].all_events))
                /\ \A k \in 1..Len(bc[t].to_send) :
                       bc[t].to_send[k] = bc[t].all_events[k])
    /\ [][\A t \in Threads :
            (bc[t].force /\ InCycle(t) /\ pc'[t] # pc[t]) => sentFile' = sentFile]_vars

C6_Witness ==
    /\ pc["sched"] = "return"
    /\ bc["sched"].force
    /\ bc["sched"].result.events > 0
    /\ bc["sched"].result.sent > 0
    /\ Ids(bc["sched"].to_send) \cap sentFile.ids # {}

\* C7: in a non-forced cycle to_send is the first MAX_EVENTS of all the
\* collected events when fewer than MIN_EVENTS of them are absent from the
\* ledger, and otherwise the first MAX_EVENTS of the absent ones, in
\* collected order.
C7_ResetPolicy ==
    \A t \in Threads :
        (pc[t] = "send_message" /\ ~bc[t].force) =>
            LET all    == bc[t].all_events
                to     == bc[t].to_send
                unseen == {i \in 1..Len(all) : EvId(all[i]) \notin bc[t].sent_ids}
                nth(k) == CHOOSE i \in unseen :
                              Cardinality({j \in unseen : j <= i}) = k
            IN  IF Cardinality(unseen) < MIN_EVENTS
                THEN /\ Len(to) = Min2(MAX_EVENTS, Len(all))
                     /\ \A k \in 1..Len(to) : to[k] = all[k]
                ELSE /\ Len(to) = Min2(MAX_EVENTS, Cardinality(unseen))
                     /\ \A k \in 1..Len(to) : to[k] = all[nth(k)]

C7_Witness ==
    \E t \in Threads :
        /\ pc[t] = "send_message"
        /\ ~bc[t].force
        /\ bc[t].reset
        /\ Ids(bc[t].to_send) \cap bc[t].sent_ids # {}
        /\ Ids(bc[t].to_send) \ bc[t].sent_ids # {}

\* C8: with no subscriber a cycle returns {sent: 0, failed: 0, events: 0}
\* straight from load_subscribers: it makes no fetch and no send_message
\* call and never reaches the steps that read or write the ledger.
C8_ZeroSubscribers ==
    \A t \in Threads :
        /\ pc[t] \in {"load_sent_ids", "get_all_events", "send_message",
                    "save_sent_ids", "json_dump"}
               => bc[t].subscribers # <<>>
        /\ (pc[t] = "return" /\ bc[t].subscribers = <<>>) =>
               /\ bc[t].result = [sent |-> 0, failed |-> 0, events |-> 0]
               /\ bc[t].net = 0
               /\ bc[t].to_send = <<>>

C8_Witness ==
    /\ pc["admin"] = "return"
    /\ ~bc["admin"].force
    /\ bc["admin"].subscribers = <<>>
    /\ sentFile.ids # {}
    /\ bc["admin"].result = NoResult

\* what get_all_events collected for the last /events command
Raw == Collected(wh_res, wh_order)

\* the positions of Raw that hold the first titled record of their url
Firsts ==
    {i \in 1..Len(Raw) :
        /\ Ev(Raw[i]).title # <<>>
        /\ \A j \in 1..(i - 1) :
               Ev(Raw[j]).title # <<>> => Ev(Raw[j]).url # Ev(Raw[i]).url}

liveUnique == Cardinality(Firsts)

fallbackAvailable ==
    Cardinality({c \in 1..Len(Curated) :
                    \A i \in Firsts : KeyOf[NLive + c] # KeyOf[Raw[i]]})

\* C9: whatever adapters return nothing, get_all_events returns at least
\* min(MIN_EVENTS, liveUnique + fallbackAvailable) events, liveUnique
\* counting the deduplicated live events and fallbackAvailable the curated
\* entries whose title key no live event has.
C9_MinimumGuarantee ==
    wh_order # <<>> =>
        Len(wh_events) >= Min2(MIN_EVENTS, liveUnique + fallbackAvailable)

C9_Witness ==
    /\ wh_order # <<>>
    /\ \E g \in sources : wh_res[g] = <<>>
    /\ liveUnique > 0
    /\ liveUnique < MIN_EVENTS
    /\ fallbackAvailable < Len(Curated)
    /\ Len(wh_events) = liveUnique + fallbackAvailable

\* C10: no two entries of the list get_all_events returns have the same
\* title key (lowercase, trimmed, first 60 characters): records with the
\* same title and different urls collapse to one entry.
C10_TitleKeyUnique ==
    wh_order # <<>> =>
        \A i, j \in 1..Len(wh_events) :
            i # j => KeyOf[wh_events[i]] # KeyOf[wh_events[j]]

\* C11: when no getter returns an event, get_all_events returns the
\* curated catalog: its 12 entries, each once, in catalog order, and
\* nothing else.
C11_AllSourcesDown ==
    (wh_order # <<>> /\ \A g \in sources : wh_res[g] = <<>>) =>
        /\ Len(wh_events) = Len(Curated)
        /\ \A i \in 1..Len(Curated) : Ev(wh_events[i]) = Curated[i]

C11_Witness ==
    /\ wh_order # <<>>
    /\ \A g \in sources : wh_res[g] = <<>>
    /\ Len(wh_events) = 12
    /\ Ev(wh_events[1]).id = "cur_1"
    /\ Ev(wh_events[12]).id = "cur_12"

\* the frames of the cycles that have left the loop over the subscribers
AfterLoop(t) == pc[t] \in {"save_sent_ids", "json_dump", "return"}
                    /\ bc[t].subscribers # <<>>

\* C12: in a cycle with subscribers send_message is called once for each
\* subscriber, in order, whatever the earlier calls returned; sent + failed
\* is the number of subscribers and failed counts the calls that returned
\* False (response not ok, or exception inside send_message).
C12_PerRecipientIsolation ==
    \A t \in Threads :
        /\ pc[t] = "send_message" =>
               bc[t].sent + bc[t].failed = Len(bc[t].tried)
        /\ AfterLoop(t) =>
               LET f == bc[t]
               IN  /\ Len(f.tried) = Len(f.subscribers)
                   /\ \A i \in 1..Len(f.subscribers) :
                          f.tried[i].chat_id = f.subscribers[i]
                   /\ f.sent + f.failed = Len(f.subscribers)
                   /\ f.failed = Cardinality({i \in 1..Len(f.tried) :
                                                 f.tried[i].outcome # "ok"})
                   /\ pc[t] = "return" =>
                          /\ f.result.sent = f.sent
                          /\ f.result.failed = f.failed

C12_Witness ==
    \E t \in Threads :
        /\ pc[t] = "return"
        /\ Len(bc[t].subscribers) = 3
        /\ bc[t].tried[1].outcome = "exception"
        /\ bc[t].tried[2].outcome = "ok"
        /\ bc[t].tried[3].outcome = "not_ok"
        /\ bc[t].result.sent = 1
        /\ bc[t].result.failed = 2

\* the getters that fail: they return nothing or their result() raises
Failing == {g \in sources : wh_out[g] \in {"empty", "raise"}}

\* C13: whatever getters fail, get_all_events returns; no event of a
\* failing getter is in its list, and every titled event of the other
\* getters is in it or has the url of an entry that is.
C13_SourceFailureIsolation ==
    wh_phase = "returned" =>
        /\ \A g \in Failing : \A i \in 1..Len(wh_events) :
               Ev(wh_events[i]).source # SourceLabel[g]
        /\ \A g \in sources \ Failing :
               \A k \in 1..Len(AdapterEvents(g)) :
                   LET e == AdapterEvents(g)[k]
                   IN  Ev(e).title # <<>> =>
                           \E i \in 1..Len(wh_events) :
                               Ev(wh_events[i]).url = Ev(e).url

C13_Witness ==
    /\ wh_phase = "returned"
    /\ wh_out["get_luma_events"] = "raise"
    /\ wh_out["get_wired_events"] = "empty"
    /\ wh_out["get_meetup_events"] = "events"
    /\ wh_order[1] = "get_luma_events"
    /\ \E i \in 1..Len(wh_events) : Ev(wh_events[i]).id = "mu_x"

\* C19: a call of get_all_events that has submitted its getters returns,
\* also when a getter never does.
C19_CollectionDeadline ==
    (wh_phase = "as_completed") ~> (wh_phase = "returned")

\* a tick of the scheduler calls broadcast_events
Fires == pc["sched"] = "sleep" /\ pc'["sched"] = "load_subscribers"

\* C14: the marker of a cycle is on disk before its dispatch completes: when
\* the process is killed between two sends of a scheduled cycle, no tick
\* after the restart calls broadcast_events again for the same period (the
\* same day in daily mode, the interval that began at the killed cycle's
\* tick in interval mode).
C14_MarkerBeforeDispatch ==
    [][Fires =>
        \A m \in midCrash :
            /\ TEST_INTERVAL_MINS = 0 => m.day_str # {today_str(clock)}
            /\ TEST_INTERVAL_MINS > 0 =>
                   \A ts \in m.ts : now_ts(clock) - ts >= TEST_INTERVAL_MINS * 60]_vars

\* C17: at every moment, a kill inside save_sent_ids included, sent_ids.json
\* holds a complete document (the set before the write or the set after
\* it), so that the load_sent_ids of the first cycle after a restart
\* succeeds.
C17_AtomicLedgerWrites ==
    /\ sentFile.st # "empty"
    /\ pc["sched"] = "load_sent_ids" => ~load_sent_ids_raises

\* last_run.json holds a document with a last_sent_day
MarkerDay == IF lastRunFile.st = "json" THEN lastRunFile.last_sent_day ELSE {}

\* last_run.json holds a document with a last_sent_ts
MarkerTs == IF lastRunFile.st = "json" THEN lastRunFile.last_sent_ts ELSE {}

\* C15: a scheduler about to poll, at its start or later, in daily mode at
\* or after the send time with no marker or the marker of another day, or
\* in interval mode with no marker or one at least the interval old, calls
\* broadcast_events at that tick: the tick that fires can be taken and the
\* tick that waits cannot.
C15_CatchUpFire ==
    pc["sched"] = "sleep" =>
        /\ (/\ TEST_INTERVAL_MINS = 0
            /\ now_total(clock) >= snd_total
            /\ MarkerDay # {today_str(clock)})
               => (ENABLED TickDailyFire) /\ ~(ENABLED TickDailyWait)
        /\ (/\ TEST_INTERVAL_MINS > 0
            /\ \A ts \in MarkerTs :
                   now_ts(clock) - ts >= TEST_INTERVAL_MINS * 60)
               => (ENABLED TickIntervalFire) /\ ~(ENABLED TickIntervalWait)

C15_Witness ==
    /\ restarts > 0
    /\ TEST_INTERVAL_MINS = 0
    /\ now_total(clock) = snd_total
    /\ today_str(clock) = 0
    /\ boot = {0 - 1}
    /\ fires[0] = 1
    /\ pc["sched"] = "load_subscribers"
    /\ bc["sched"].subscribers = <<>>

\* save_last_run returns to the loop of run_scheduler: the thread leaves it
\* for the sleep without a restart of the process and without json.dump
\* having raised
MarkerSaved ==
    /\ pc["sched"] = "save_last_run" /\ pc'["sched"] = "sleep"
    /\ restarts' = restarts
    /\ io'.fails = io.fails

\* C16: in interval mode a tick calls broadcast_events only when the
\* persisted last_sent_ts is at least TEST_INTERVAL_MINS * 60 seconds old,
\* the marker holds the tick's epoch seconds once save_last_run has
\* returned, and the trigger times of two consecutive fires, a restart
\* between them or not, are at least one interval apart.
C16_IntervalSpacing ==
    [][TEST_INTERVAL_MINS > 0 =>
        /\ Fires =>
            /\ \A ts \in MarkerTs :
                   now_ts(clock) - ts >= TEST_INTERVAL_MINS * 60
            /\ \A ts \in lastFire :
                   now_ts(clock) - ts >= TEST_INTERVAL_MINS * 60
        /\ MarkerSaved => MarkerTs' = sch.ts]_vars

\* C18: a provider record gets the same id at every fetch, in one run of
\* the process or in two, and two records of one source never get the
\* same id.
C18_StableEventIds ==
    /\ \A h \in 1..NLive : Cardinality(idsGiven[h]) <= 1
    /\ \A h1, h2 \in 1..NLive :
           (h1 # h2 /\ Ev(h1).source = Ev(h2).source) =>
               idsGiven[h1] \cap idsGiven[h2] = {}

\* C20: a failed write of sent_ids.json or last_run.json in a scheduled
\* cycle does not end the loop of run_scheduler, and the cycle of a later
\* tick reads the file, updates what it read and writes it.
C20_PersistenceFailureNotFatal ==
    (io.pending # "none") ~> (io.pending = "none")

\* C21: no step of a cycle (of the scheduler or of /admin/broadcast,
\* forced or not, whatever send_message returns) changes subscribers.json.
C21_SubscribersReadOnly ==
    [][(pc' # pc \/ bc' # bc) => subscribersFile' = subscribersFile]_vars

C21_Witness ==
    \E t \in Threads :
        /\ pc[t] = "return"
        /\ bc[t].subscribers # <<>>
        /\ bc[t].result.failed > 0
        /\ subscribersFile = JsonSubs(bc[t].subscribers)

\* C22: every event a getter returned, and every live event of the list
\* get_all_events returns, has a title that holds a keyword of
\* TECH_KEYWORDS.
C22_TopicalFilter ==
    /\ \A g \in sources : \A k \in 1..Len(wh_res[g]) : TechTitle[wh_res[g][k]]
    /\ \A i \in 1..Len(wh_events) :
           wh_events[i] <= NLive => TechTitle[wh_events[i]]

\* the positions of wh_events that hold a curated entry
Fallbacks == {i \in 1..Len(wh_events) : wh_events[i] > NLive}

\* C23: get_all_events appends no curated entry when the deduplicated live
\* events are MIN_EVENTS or more, and with fewer it appends curated
\* entries only until the list has MIN_EVENTS entries: a padded list is
\* never longer than MIN_EVENTS.
C23_PadOnlyToMin ==
    wh_order # <<>> =>
        /\ liveUnique >= MIN_EVENTS => Fallbacks = {}
        /\ Fallbacks # {} => Len(wh_events) <= MIN_EVENTS

\* C24: in daily mode no tick whose time of day in Nairobi is before
\* SEND_TIME calls broadcast_events, whatever last_run.json holds.
C24_NoEarlyFire ==
    [][(TEST_INTERVAL_MINS = 0 /\ Fires) => now_total(clock) >= snd_total]_vars

C24_Witness ==
    /\ TEST_INTERVAL_MINS = 0
    /\ pc["sched"] = "sleep"
    /\ now_total(clock) < snd_total
    /\ today_str(clock) = 1
    /\ MarkerDay = {0}
    /\ fires[0] = 1
    /\ fires[1] = 0
    /\ ENABLED TickDailyWait
    /\ ~(ENABLED TickDailyFire)

\* new_events of the frame f: the list to_send is cut from
CutFrom(f) ==
    IF f.force \/ Len(Unseen(f.all_events, f.sent_ids)) < MIN_EVENTS
    THEN f.all_events
    ELSE Unseen(f.all_events, f.sent_ids)

\* C25: in every cycle to_send has at most MAX_EVENTS entries and is a
\* prefix of new_events; every send_message call of the cycle gets the one
\* body built from to_send; the count 'events' returned is len(to_send).
C25_CapAndCount ==
    \A t \in Threads :
        LET f == bc[t]
        IN  /\ pc[t] = "send_message" =>
                /\ Len(f.to_send) <= MAX_EVENTS
                /\ Len(f.to_send) <= Len(CutFrom(f))
                /\ \A k \in 1..Len(f.to_send) : f.to_send[k] = CutFrom(f)[k]
                /\ Len(f.to_send) < MAX_EVENTS => f.to_send = CutFrom(f)
            /\ Selected(t) =>
                \A i \in 1..Len(f.tried) :
                    f.tried[i].text = build_message(f.to_send)
            /\ (pc[t] = "return" /\ f.subscribers # <<>>) =>
                /\ Len(f.tried) = Len(f.subscribers)
                /\ f.result.events = Len(f.to_send)

C25_Witness ==
    \E t \in Threads :
        /\ pc[t] = "return"
        /\ ~bc[t].force
        /\ bc[t].sent_ids # {}
        /\ Len(bc[t].all_events) > MAX_EVENTS
        /\ bc[t].to_send[1] # bc[t].all_events[1]
        /\ bc[t].result.events = MAX_EVENTS
        /\ Len(bc[t].tried) = 3
        /\ bc[t].tried[3].text[MAX_EVENTS].e = bc[t].to_send[MAX_EVENTS]

\* C26: when a non-forced cycle with a subscriber returns, sent_ids.json
\* holds every id of to_send, whatever the send_message calls returned.
C26_MarkedWhateverTheOutcome ==
    \A t \in Threads :
        (pc[t] = "return" /\ ~bc[t].force /\ bc[t].subscribers # <<>>) =>
            /\ sentFile.st = "json"
            /\ Ids(bc[t].to_send) \subseteq sentFile.ids

C26_Witness ==
    /\ pc["sched"] = "return"
    /\ ~bc["sched"].force
    /\ Len(bc["sched"].subscribers) = 3
    /\ bc["sched"].result.sent = 0
    /\ bc["sched"].result.failed = 3
    /\ Ids(bc["sched"].to_send) \subseteq sentFile.ids
    /\ "cur_2" \in sentFile.ids

\* C27: no step of a cycle started by /admin/broadcast changes
\* last_run.json, so that a manual broadcast neither suppresses nor
\* re-arms the scheduled one of the day.
C27_ManualLeavesMarker ==
    [][(pc'["admin"] # pc["admin"] \/ bc'["admin"] # bc["admin"])
           => lastRunFile' = lastRunFile]_vars

C27_Witness ==
    /\ TEST_INTERVAL_MINS = 0
    /\ today_str(clock) = 0
    /\ adminCalls = 1
    /\ pc["admin"] = "idle"
    /\ announced # {}
    /\ announced \subseteq sentFile.ids
    /\ MarkerDay # {0}
    /\ fires[0] = 1
    /\ pc["sched"] = "load_subscribers"

\* C28: in daily mode, when the scheduled call of broadcast_events has
\* returned (with events sent, with every send failed, or at once for want
\* of subscribers) save_last_run leaves the tick's day in last_run.json,
\* and no later tick of that day calls broadcast_events.
C28_DayMarkedOnReturn ==
    [][TEST_INTERVAL_MINS = 0 =>
        /\ MarkerSaved => (sch.day_str # {} /\ MarkerDay' = sch.day_str)
        /\ Fires => today_str(clock) \notin returned]_vars

C28_Witness ==
    /\ TEST_INTERVAL_MINS = 0
    /\ today_str(clock) = 0
    /\ now_total(clock) > snd_total
    /\ returned = {0}
    /\ fires[0] = 1
    /\ announced = {}
    /\ adminCalls = 0
    /\ MarkerDay = {0}
    /\ subscribersFile = JsonSubs(<<1>>)
    /\ pc["sched"] = "sleep"
    /\ ENABLED TickDailyWait
    /\ ~(ENABLED TickDailyFire)

\* C29: every cycle the scheduler starts in interval mode is forced: its
\* to_send is the first MAX_EVENTS collected events whatever sent_ids.json
\* holds, and none of its steps changes sent_ids.json, fire after fire.
C29_IntervalFiresForced ==
    /\ [](TEST_INTERVAL_MINS > 0 =>
            /\ InCycle("sched") => bc["sched"].force
            /\ Selected("sched") =>
                   bc["sched"].to_send =
                       Prefix(bc["sched"].all_events, MAX_EVENTS))
    /\ [][(TEST_INTERVAL_MINS > 0
             /\ (pc'["sched"] # pc["sched"] \/ bc'["sched"] # bc["sched"]))
           => sentFile' = sentFile]_vars

C29_Witness ==
    /\ TEST_INTERVAL_MINS > 0
    /\ fires[0] = 2
    /\ pc["sched"] = "return"
    /\ bc["sched"].result.sent > 0
    /\ bc["sched"].result.events = MAX_EVENTS
    /\ adminCalls = 0
    /\ sentFile.st = "json"
    /\ Ids(bc["sched"].to_send) \cap sentFile.ids # {}
    /\ ~(Ids(bc["sched"].to_send) \subseteq sentFile.ids)

\* C30: no two entries of the list get_all_events returns, curated
\* entries included, have the same url, and every entry has a title.
C30_UrlUnique ==
    wh_order # <<>> =>
        /\ \A i, j \in 1..Len(wh_events) :
               i # j => Ev(wh_events[i]).url # Ev(wh_events[j]).url
        /\ \A i \in 1..Len(wh_events) : Ev(wh_events[i]).title # <<>>
====
